---- MODULE Spec2Model ----
(***************************************************************************)
(* Model of src/App.js: the reminder screen.  The state is the SQLite      *)
(* table `reminders`, the host's set of scheduled notification requests,   *)
(* the React state `reminders` shown by the FlatList, and one record per   *)
(* invocation of an async handler (loadReminders on mount, addReminder,    *)
(* deleteReminder) holding the await at which that invocation stands.      *)
(* Every await is a point where another handler's continuation may run.    *)
(* The explored window ends before the first trigger date: the host holds  *)
(* every accepted request as scheduled until it is cancelled.  Each call   *)
(* to the database or to the notification subsystem may be rejected.       *)
(***************************************************************************)
EXTENDS Integers, Sequences, FiniteSets, TLC

VARIABLES phase, tableExists, store, seq, scheduled, uuidCount,
          reminders, tasks, hostCalls, console, assignedIds

vars == <<phase, tableExists, store, seq, scheduled, uuidCount,
          reminders, tasks, hostCalls, console, assignedIds>>

(* ------------------------------ bounds -------------------------------- *)

\* number of user taps (add / delete) explored
MaxTaps == 2

\* form contents at the time of a tap on the add button: title, message and
\* the picked Date in milliseconds since the epoch (the fields may be empty)
Forms == {<<"", "", 999>>}

(* --------------------------- pure functions --------------------------- *)

Digit(d) ==
    CASE d = 0 -> "0" [] d = 1 -> "1" [] d = 2 -> "2" [] d = 3 -> "3"
      [] d = 4 -> "4" [] d = 5 -> "5" [] d = 6 -> "6" [] d = 7 -> "7"
      [] d = 8 -> "8" [] d = 9 -> "9"

RECURSIVE IdToString(_)
\* Number.prototype.toString() of a non-negative integer: decimal digits
IdToString(n) ==
    IF n < 10 THEN Digit(n) ELSE IdToString(n \div 10) \o Digit(n % 10)

\* Date.prototype.toISOString() for an instant in the first second of the epoch
toISOString(ms) ==
    "1970-01-01T00:00:00." \o Digit(ms \div 100) \o Digit((ms \div 10) % 10)
        \o Digit(ms % 10) \o "Z"

\* a request that always carries the same hard-coded identifier
NotificationIdentifierShared(n) == IdToString(1)

\* the request carries no `identifier`, so the host generates a fresh one
\* (a UUID, never a decimal number) for every accepted request
NotificationIdentifier(n) == "uuid-" \o IdToString(n)

\* rowid chosen without AUTOINCREMENT: one more than the largest rowid present
NextRowIdMaxPresent(st, sq) ==
    IF st = {} THEN 1
    ELSE (CHOOSE m \in {r.id : r \in st} : \A r \in st : r.id <= m) + 1

\* INTEGER PRIMARY KEY AUTOINCREMENT: one more than the largest rowid ever used
NextRowId(st, sq) == sq + 1

\* DELETE FROM reminders WHERE id = ?
DeleteRows(st, id) == {r \in st : r.id # id}

\* a DELETE that treats "no row matched" as a failure
RunDeleteOkIfPresent(st, id, working) == working /\ \E r \in st : r.id = id

\* DELETE ... WHERE id = ? succeeds whenever the database does, 0 rows or not
RunDeleteOk(st, id, working) == working

RECURSIVE ListAll(_)
\* SELECT * FROM reminders: every row, in rowid order
ListAll(st) ==
    IF st = {} THEN <<>>
    ELSE LET r == CHOOSE x \in st : \A y \in st : x.id <= y.id
         IN <<r>> \o ListAll(st \ {r})

\* an addReminder whose try block covers only the insert
AddAfterInsertAlways(ok) == "arm"

\* addReminder: a rejected insert jumps to the catch, past arm and re-read
AddAfterInsert(ok) == IF ok THEN "arm" ELSE "done"

\* a scheduleNotification that lets the rejection reach addReminder's catch
AddAfterArmRethrow(ok) == IF ok THEN "read" ELSE "done"

\* scheduleNotification catches the rejection itself: addReminder goes on
AddAfterArm(ok) == "read"

\* deleteReminder: a rejected DELETE jumps to the catch, past cancel and re-read
DeleteAfterRow(ok) == IF ok THEN "cancel" ELSE "done"

\* deleteReminder: a rejected cancel jumps to the catch, past the re-read
DeleteAfterCancel(ok) == IF ok THEN "read" ELSE "done"

(* ------------------------------ helpers ------------------------------- *)

TaskIds == 1..Len(tasks)

InFlight == {i \in TaskIds : tasks[i].pc # "done"}

Taps == {i \in TaskIds : tasks[i].op \in {"add", "delete"}}

NewTask(op, pc, id, title, message, date) ==
    [op |-> op, pc |-> pc, id |-> id, title |-> title, message |-> message,
     date |-> date, rows |-> <<>>, lastInsertRowId |-> 0, changes |-> -1,
     notifId |-> "", reread |-> FALSE]

Logged(i, msg) == \E c \in console : c.task = i /\ c.msg = msg

\* the error a rejected database call throws, as console.log prints it
DbError(up, hasTable) ==
    IF ~up THEN "database unavailable"
    ELSE IF ~hasTable THEN "no such table: reminders"
    ELSE "statement failed"

\* the error a rejected notification call throws
HostError == "notification subsystem rejected the request"

(* -------------------------------- Init -------------------------------- *)

\* what an earlier session of the app left behind: nothing (first start), or
\* the table with one reminder and the notification armed for it
Earlier ==
    { [tableExists |-> FALSE, store |-> {}, seq |-> 0, scheduled |-> {},
       uuidCount |-> 0],
      [tableExists |-> TRUE,
       store |-> {[id |-> 1, title |-> "Pay rent", message |-> "Due today",
                   date |-> toISOString(0)]},
       seq |-> 1,
       scheduled |-> {[identifier |-> NotificationIdentifier(1),
                       title |-> "Pay rent", body |-> "Due today", date |-> 0]},
       uuidCount |-> 1] }

Init ==
    /\ phase = "init"
    /\ \E e \in Earlier :
          /\ tableExists = e.tableExists
          /\ store = e.store
          /\ seq = e.seq
          /\ scheduled = e.scheduled
          /\ uuidCount = e.uuidCount
          /\ assignedIds = 1..e.seq
    /\ reminders = <<>>
    /\ tasks = <<>>
    /\ hostCalls = {}
    /\ console = {}

(* ------------------------------ startup ------------------------------- *)

\* SQLiteProvider onInit: CREATE TABLE IF NOT EXISTS; an error is only logged.
\* `up` is whether the persistence engine serves this call.
initializeDatabase(up) ==
    /\ phase = "init"
    /\ phase' = "ready"
    /\ tableExists' = (tableExists \/ up)
    /\ console' = IF up THEN console
                  ELSE console \cup {[task |-> 0,
                           msg |-> "Error while initializing database: ",
                           error |-> DbError(up, TRUE)]}
    /\ UNCHANGED <<store, seq, scheduled, uuidCount, reminders,
                   tasks, hostCalls, assignedIds>>

\* Content's useEffect(..., []): loadReminders() is started and not awaited
Mount ==
    /\ phase = "ready"
    /\ phase' = "mounted"
    /\ tasks' = Append(tasks, NewTask("load", "read", 0, "", "", 0))
    /\ UNCHANGED <<tableExists, store, seq, scheduled, uuidCount,
                   reminders, hostCalls, console, assignedIds>>

(* ------------------------------ the taps ------------------------------ *)

\* <Button onPress={addReminder}>: the handler closes over title, message,
\* date and suspends at its first await; the button stays enabled
TapAdd(title, message, date) ==
    /\ phase = "mounted"
    /\ Cardinality(Taps) < MaxTaps
    /\ tasks' = Append(tasks, NewTask("add", "insert", 0, title, message, date))
    /\ UNCHANGED <<phase, tableExists, store, seq, scheduled,
                   uuidCount, reminders, hostCalls, console, assignedIds>>

\* <AntDesign onPress={() => deleteReminder(reminder.id)}> of a listed item
TapDelete(k) ==
    /\ phase = "mounted"
    /\ Cardinality(Taps) < MaxTaps
    /\ tasks' = Append(tasks, NewTask("delete", "delete", reminders[k].id, "", "", 0))
    /\ UNCHANGED <<phase, tableExists, store, seq, scheduled,
                   uuidCount, reminders, hostCalls, console, assignedIds>>

(* ---------------------------- loadReminders --------------------------- *)

\* await db.getAllAsync("SELECT * FROM reminders")
LoadRead(i, up) ==
    /\ tasks[i].pc = "read"
    /\ IF up /\ tableExists
       THEN /\ tasks' = [tasks EXCEPT ![i] = [@ EXCEPT !.pc = "set",
                               !.rows = ListAll(store), !.reread = TRUE]]
            /\ console' = console
       ELSE /\ tasks' = [tasks EXCEPT ![i] = [@ EXCEPT !.pc = "done",
                               !.reread = TRUE]]
            /\ console' = console \cup {[task |-> i,
                               msg |-> "Error while loading reminders: ",
                               error |-> DbError(up, tableExists)]}
    /\ UNCHANGED <<phase, tableExists, store, seq, scheduled,
                   uuidCount, reminders, hostCalls, assignedIds>>

\* setReminders(allRows), in the continuation of the await; allRows is a
\* local of the invocation and is gone when it returns
LoadSet(i) ==
    /\ tasks[i].pc = "set"
    /\ reminders' = tasks[i].rows
    /\ tasks' = [tasks EXCEPT ![i] = [@ EXCEPT !.pc = "done", !.rows = <<>>]]
    /\ UNCHANGED <<phase, tableExists, store, seq, scheduled,
                   uuidCount, hostCalls, console, assignedIds>>

(* ----------------------------- addReminder ---------------------------- *)

\* await db.runAsync("INSERT INTO reminders ...", [title, message, date.toISOString()])
AddInsert(i, up) ==
    /\ tasks[i].pc = "insert"
    /\ LET ok == up /\ tableExists
           k == NextRowId(store, seq)
           row == [id |-> k, title |-> tasks[i].title,
                   message |-> tasks[i].message,
                   date |-> toISOString(tasks[i].date)]
       IN /\ tasks' = [tasks EXCEPT ![i] = [@ EXCEPT !.pc = AddAfterInsert(ok),
                             !.lastInsertRowId = IF ok THEN k ELSE 0]]
          /\ store' = IF ok THEN store \cup {row} ELSE store
          /\ seq' = IF ok /\ k > seq THEN k ELSE seq
          /\ assignedIds' = IF ok THEN assignedIds \cup {k} ELSE assignedIds
          /\ console' = IF ok THEN console
                        ELSE console \cup {[task |-> i,
                                 msg |-> "Error while adding reminder: ",
                                 error |-> DbError(up, tableExists)]}
    /\ UNCHANGED <<phase, tableExists, scheduled, uuidCount,
                   reminders, hostCalls>>

\* await scheduleNotification(title, message, date): the request carries
\* content and trigger but no identifier; a rejection is caught inside.
\* `up` is whether the notification subsystem accepts this request.
AddArm(i, up) ==
    /\ tasks[i].pc = "arm"
    /\ LET ident == NotificationIdentifier(uuidCount + 1)
       IN /\ hostCalls' = hostCalls \cup
                 {[task |-> i, call |-> "schedule", arg |-> ""]}
          /\ scheduled' = IF up
                THEN scheduled \cup {[identifier |-> ident,
                         title |-> tasks[i].title, body |-> tasks[i].message,
                         date |-> tasks[i].date]}
                ELSE scheduled
          /\ uuidCount' = IF up THEN uuidCount + 1 ELSE uuidCount
          /\ tasks' = [tasks EXCEPT ![i] = [@ EXCEPT !.pc = AddAfterArm(up),
                             !.notifId = IF up THEN ident ELSE ""]]
          /\ console' = IF up THEN console
                        ELSE console \cup {[task |-> i,
                                 msg |-> "Error scheduling notification: ",
                                 error |-> HostError]}
    /\ UNCHANGED <<phase, tableExists, store, seq, reminders,
                   assignedIds>>

(* ---------------------------- deleteReminder -------------------------- *)

\* await db.runAsync("DELETE FROM reminders WHERE id = ?", [id])
DeleteRow(i, up) ==
    /\ tasks[i].pc = "delete"
    /\ LET ok == RunDeleteOk(store, tasks[i].id, up /\ tableExists)
           st == DeleteRows(store, tasks[i].id)
       IN /\ store' = IF ok THEN st ELSE store
          /\ tasks' = [tasks EXCEPT ![i] = [@ EXCEPT !.pc = DeleteAfterRow(ok),
                 !.changes = IF ok THEN Cardinality(store) - Cardinality(st)
                             ELSE -1]]
          /\ console' = IF ok THEN console
                        ELSE console \cup {[task |-> i,
                                 msg |-> "Error while deleting reminder: ",
                                 error |-> DbError(up, tableExists)]}
    /\ UNCHANGED <<phase, tableExists, seq, scheduled, uuidCount,
                   reminders, hostCalls, assignedIds>>

\* await Notifications.cancelScheduledNotificationAsync(id.toString())
DeleteCancel(i, up) ==
    /\ tasks[i].pc = "cancel"
    /\ LET tag == IdToString(tasks[i].id)
       IN /\ hostCalls' = hostCalls \cup
                 {[task |-> i, call |-> "cancel", arg |-> tag]}
          /\ scheduled' = IF up THEN {n \in scheduled : n.identifier # tag}
                          ELSE scheduled
          /\ tasks' = [tasks EXCEPT ![i] = [@ EXCEPT !.pc = DeleteAfterCancel(up)]]
          /\ console' = IF up THEN console
                        ELSE console \cup {[task |-> i,
                                 msg |-> "Error while deleting reminder: ",
                                 error |-> HostError]}
    /\ UNCHANGED <<phase, tableExists, store, seq, uuidCount,
                   reminders, assignedIds>>

Next ==
    \/ \E up \in BOOLEAN : initializeDatabase(up)
    \/ Mount
    \/ \E f \in Forms : TapAdd(f[1], f[2], f[3])
    \/ \E k \in 1..Len(reminders) : TapDelete(k)
    \/ \E i \in TaskIds, up \in BOOLEAN : LoadRead(i, up)
    \/ \E i \in TaskIds : LoadSet(i)
    \/ \E i \in TaskIds, up \in BOOLEAN : AddInsert(i, up)
    \/ \E i \in TaskIds, up \in BOOLEAN : AddArm(i, up)
    \/ \E i \in TaskIds, up \in BOOLEAN : DeleteRow(i, up)
    \/ \E i \in TaskIds, up \in BOOLEAN : DeleteCancel(i, up)

Spec == Init /\ [][Next]_vars

(* ------------------------------ properties ---------------------------- *)

AddTasks == {i \in TaskIds : tasks[i].op = "add"}

DeleteTasks == {i \in TaskIds : tasks[i].op = "delete"}

NoError(i) == \A c \in console : c.task # i

RowOf(i) ==
    [id |-> tasks[i].lastInsertRowId, title |-> tasks[i].title,
     message |-> tasks[i].message, date |-> toISOString(tasks[i].date)]

Listed(id) == \E k \in 1..Len(reminders) : reminders[k].id = id

Stored(id) == \E r \in store : r.id = id

\* C1: when an add whose insert and arm both succeeded is followed by a
\* delete of the id the store assigned, and the delete ran to its end with
\* no error, the notification the add armed is no longer scheduled.
C1_ArmCancelPairing ==
    \A a \in AddTasks, d \in DeleteTasks :
        ( /\ tasks[a].pc = "done" /\ tasks[a].notifId # ""
          /\ tasks[d].id = tasks[a].lastInsertRowId
          /\ tasks[d].pc = "done" /\ NoError(d) )
        => ~ \E n \in scheduled : n.identifier = tasks[a].notifId

\* C2: a delete that has removed its row from the store has already issued
\* the cancel request for the string form of that id.
C2_CancelBeforeDelete ==
    \A d \in DeleteTasks :
        tasks[d].changes >= 1
        => [task |-> d, call |-> "cancel", arg |-> IdToString(tasks[d].id)]
               \in hostCalls

C4_NoReentrancy ==
    Cardinality(InFlight \cap Taps) <= 1

\* C5: the insert of an add stores a row with exactly the form's title and
\* message and the ISO string of its date, under an id the store has never
\* assigned before, and SELECT * returns that row.
C5_AddThenListFreshId ==
    [][\A i \in TaskIds :
          (tasks[i].pc = "insert" /\ tasks'[i].pc = "arm")
          => /\ tasks'[i].lastInsertRowId \notin assignedIds
             /\ tasks'[i].lastInsertRowId \notin {r.id : r \in store}
             /\ [id |-> tasks'[i].lastInsertRowId, title |-> tasks[i].title,
                 message |-> tasks[i].message,
                 date |-> toISOString(tasks[i].date)] \in store'
             /\ \E k \in 1..Len(ListAll(store')) :
                   ListAll(store')[k] =
                      [id |-> tasks'[i].lastInsertRowId,
                       title |-> tasks[i].title,
                       message |-> tasks[i].message,
                       date |-> toISOString(tasks[i].date)]
             /\ Cardinality(store') = Cardinality(store) + 1]_vars

\* C5 witness: an add succeeded after the row with the highest id so far had
\* been deleted, and its row is listed
C5_Witness ==
    \E i \in AddTasks :
        /\ tasks[i].pc = "done"
        /\ RowOf(i) \in store
        /\ Listed(tasks[i].lastInsertRowId)
        /\ \E d \in DeleteTasks :
              /\ d < i /\ tasks[d].changes = 1
              /\ tasks[d].id + 1 = tasks[i].lastInsertRowId

\* C6: an add or delete that has finished has re-read the list from the store.
C6_RefreshAlways ==
    \A i \in Taps : tasks[i].pc = "done" => tasks[i].reread

\* C7: when the store delete of a delete succeeded and its cancel failed, the
\* finished delete leaves the record neither stored nor listed.
C7_DeleteProceedsOnCancelFailure ==
    \A d \in DeleteTasks :
        ( /\ tasks[d].pc = "done" /\ tasks[d].changes >= 0
          /\ Logged(d, "Error while deleting reminder: ") )
        => ~Stored(tasks[d].id) /\ ~Listed(tasks[d].id)

\* C8: the step in which arming fails changes neither the store nor the
\* scheduled notifications and moves the add on to its list re-read, whose
\* successful read takes every stored row and whose set shows what was read.
C8_ArmFailureKeepsRecord ==
    [][\A i \in AddTasks :
          /\ (tasks[i].pc = "arm" /\ tasks'[i].pc # "arm" /\ console' # console)
             => /\ tasks'[i].pc = "read"
                /\ store' = store
                /\ scheduled' = scheduled
                /\ tasks'[i].notifId = ""
          /\ (tasks[i].pc = "read" /\ tasks'[i].pc = "set")
             => tasks'[i].rows = ListAll(store)
          /\ (tasks[i].pc = "set" /\ tasks'[i].pc = "done")
             => reminders' = tasks[i].rows]_vars

\* C8 witness: a finished add whose arm was rejected; its row is stored and
\* listed and no notification carries its content
C8_Witness ==
    \E i \in AddTasks :
        /\ tasks[i].pc = "done"
        /\ Logged(i, "Error scheduling notification: ")
        /\ RowOf(i) \in store
        /\ Listed(tasks[i].lastInsertRowId)
        /\ ~ \E n \in scheduled :
               n.title = tasks[i].title /\ n.date = tasks[i].date

\* C9: the store step of a delete logs an error only when the database is
\* unavailable or has no table, and otherwise removes exactly the rows with
\* the id and leaves a store without that id unchanged; the cancel step logs
\* an error only when the host rejects the request, and never touches the
\* store.
C9_IdempotentDelete ==
    [][\A i \in DeleteTasks :
          /\ (tasks[i].pc = "delete" /\ tasks'[i].pc # "delete")
             => /\ \A c \in console' \ console :
                      c.error \in {DbError(FALSE, TRUE), DbError(TRUE, FALSE)}
                /\ console' = console
                   => /\ store' = {r \in store : r.id # tasks[i].id}
                      /\ (~Stored(tasks[i].id) => store' = store)
                      /\ tasks'[i].pc = "cancel"
          /\ (tasks[i].pc = "cancel" /\ tasks'[i].pc # "cancel")
             => /\ \A c \in console' \ console : c.error = HostError
                /\ store' = store]_vars

\* C9 witness: two finished deletes of the same id, the first removed the
\* row, the second found none, neither logged an error
C9_Witness ==
    \E d, e \in DeleteTasks :
        /\ d < e /\ tasks[d].id = tasks[e].id
        /\ tasks[d].pc = "done" /\ tasks[e].pc = "done"
        /\ tasks[d].changes = 1 /\ tasks[e].changes = 0
        /\ NoError(d) /\ NoError(e)

\* C10: the step in which the insert of an add or the store delete of a
\* delete fails ends the operation and changes neither the store, the
\* scheduled notifications, the shown list nor the requests made to the host.
C10_FailedMutationTouchesNothing ==
    [][\A i \in Taps :
          (tasks[i].pc \in {"insert", "delete"} /\ tasks'[i].pc # tasks[i].pc
             /\ console' # console)
          => /\ tasks'[i].pc = "done"
             /\ store' = store
             /\ scheduled' = scheduled
             /\ reminders' = reminders
             /\ hostCalls' = hostCalls]_vars

\* C10 witness: a finished add whose insert failed and a finished delete
\* whose store delete failed, neither of which made a request to the host
C10_Witness ==
    \E a \in AddTasks, d \in DeleteTasks :
        /\ tasks[a].pc = "done" /\ Logged(a, "Error while adding reminder: ")
        /\ tasks[d].pc = "done" /\ tasks[d].changes = -1
        /\ Logged(d, "Error while deleting reminder: ")
        /\ \A c \in hostCalls : c.task \notin {a, d}

====
